---- MODULE Spec2Model ----
(***************************************************************************)
(* Model of PA4.py, the "Disaster Event Statistics Analyzer" script: one   *)
(* run of the button handler (translate, research, extract, clean, JSON    *)
(* decode, cardinality checks, date clean-up and sort, table and charts).  *)
(*                                                                         *)
(* Texts are sequences of tokens.  Punctuation tokens are "[", "]", ",",   *)
(* the fence marker "<fence>" (three backquotes), a language tag ("json",   *)
(* "py") and white space (" ", "\n").  A record token stands for one JSON  *)
(* object of the array;                                                    *)
(* it is named by the string of its time field, and "{}" is an object      *)
(* that has no time field at all.                                          *)
(***************************************************************************)
EXTENDS Integers, Sequences, FiniteSets, TLC

(* ---------------------------------------------------------------- bounds *)

\* longest pattern of records the Generation Service repeats in a payload
MaxCycle == 2

(* ------------------------------------------------------ program constants *)

MIN_EVENTS == 10
MAX_EVENTS == 100

\* Python's None (a missing response text), kept apart from the empty text
None == <<"<None>">>

\* pandas' NaT, the result of a coerced date that does not parse
NaT == 0

(* ----------------------------------------------------------------- texts *)

Whitespace == {" ", "\n"}

\* str.strip(): white space removed from both ends only
RECURSIVE LStrip(_)
LStrip(s) ==
    IF s # <<>> /\ Head(s) \in Whitespace THEN LStrip(Tail(s)) ELSE s

RECURSIVE RStrip(_)
RStrip(s) ==
    IF s # <<>> /\ s[Len(s)] \in Whitespace
    THEN RStrip(SubSeq(s, 1, Len(s) - 1))
    ELSE s

Strip(s) == RStrip(LStrip(s))

\* str.startswith(p)
StartsWith(s, p) ==
    Len(s) >= Len(p) /\ SubSeq(s, 1, Len(p)) = p

\* str.replace(p, ''): every non-overlapping occurrence of p, left to right
Occurrences(s, p) ==
    {i \in 1..(Len(s) - Len(p) + 1) : SubSeq(s, i, i + Len(p) - 1) = p}

RECURSIVE Remove(_, _)
Remove(s, p) ==
    IF Occurrences(s, p) = {} THEN s
    ELSE LET i == CHOOSE x \in Occurrences(s, p) :
                      \A y \in Occurrences(s, p) : x <= y
         IN  SubSeq(s, 1, i - 1) \o Remove(SubSeq(s, i + Len(p), Len(s)), p)

\* Python truthiness of an Optional[str]
Truthy(s) == s # None /\ s # <<>>

(* --------------------------------------------------------------- records *)

TimeStrings == {"2019", "2020", "2020-01", "not-a-date"}

NoTimeField == "{}"

Records == TimeStrings \cup {NoTimeField}

\* pd.to_datetime(df['time'], errors='coerce') on one cell; a record with
\* no time field has NaN in the column, which also becomes NaT
to_datetime(r) ==
    CASE r = "2019"    -> 201901
      [] r = "2020"    -> 202001
      [] r = "2020-01" -> 202001
      [] OTHER         -> NaT

\* df['time'] raises KeyError when no record of the frame has the column
KeyErrorOnTime(d) == \A i \in 1..Len(d) : d[i] = NoTimeField

(* ------------------------------------------- the Generation Service side *)

ProviderErrors == {"quota exceeded", "503 unavailable"}

TranslationErrors == {"quota exceeded"}

\* the record counts the service answers with, around the two bounds
Lens ==
    {0, MIN_EVENTS - 1, MIN_EVENTS, MIN_EVENTS + 2, MAX_EVENTS, MAX_EVENTS + 1}

Cycles == UNION {[1..k -> Records] : k \in 1..MaxCycle}

Cycle(c, n) == [i \in 1..n |-> c[((i - 1) % Len(c)) + 1]]

Payloads == {Cycle(c, n) : c \in Cycles, n \in Lens}

\* the JSON text of an array of records
Items(d) ==
    [i \in 1..(IF d = <<>> THEN 0 ELSE 2 * Len(d) - 1) |->
        IF i % 2 = 1 THEN d[(i + 1) \div 2] ELSE ","]

ArrayText(d) == <<"[">> \o Items(d) \o <<"]">>

Forms == {"array", "truncated", "empty"}

Body(form, d) ==
    CASE form = "array"     -> ArrayText(d)
      [] form = "truncated" -> <<"[">> \o Items(d)
      [] OTHER              -> <<>>

\* the three-backquote marker of a fenced code block
Fence == "<fence>"

FencedWraps == {"fence", "fence_json", "fence_other"}

Wraps == {"bare", "spaced"} \cup FencedWraps

Wrap(w, body) ==
    CASE w = "bare"        -> body
      [] w = "spaced"      -> <<" ">> \o body \o <<"\n">>
      [] w = "fence"       -> <<Fence, "\n">> \o body \o <<"\n", Fence>>
      [] w = "fence_json"  -> <<Fence, "json", "\n">> \o body \o <<"\n", Fence, "\n">>
      [] OTHER             -> <<Fence, "py", "\n">> \o body \o <<"\n", Fence>>

\* what the extraction call can answer: a text, no text at all, or an error
ExtractReplies ==
    {[ok |-> TRUE, none |-> FALSE, form |-> "array", recs |-> d, wrap |-> w, err |-> ""] :
        d \in Payloads, w \in Wraps}
    \cup
    {[ok |-> TRUE, none |-> FALSE, form |-> "truncated", recs |-> d, wrap |-> w, err |-> ""] :
        d \in {Cycle(<<r>>, MIN_EVENTS) : r \in Records}, w \in Wraps}
    \cup
    {[ok |-> TRUE, none |-> FALSE, form |-> "empty", recs |-> <<>>, wrap |-> w, err |-> ""] :
        w \in Wraps}
    \cup
    {[ok |-> TRUE, none |-> TRUE, form |-> "empty", recs |-> <<>>, wrap |-> "bare", err |-> ""]}
    \cup
    {[ok |-> FALSE, none |-> FALSE, form |-> "empty", recs |-> <<>>, wrap |-> "bare", err |-> e] :
        e \in ProviderErrors}

NoReply ==
    [ok |-> TRUE, none |-> TRUE, form |-> "empty", recs |-> <<>>, wrap |-> "bare", err |-> ""]

ReplyText(rep) == IF rep.none THEN None ELSE Wrap(rep.wrap, Body(rep.form, rep.recs))

\* answers of the translation and research calls
TextReplies(texts, errs) ==
    {[ok |-> TRUE, text |-> t, err |-> ""] : t \in texts}
    \cup {[ok |-> FALSE, text |-> None, err |-> e] : e \in errs}

TranslationTexts == {<<" ", "flood", "\n">>, <<" ">>}

ResearchTexts == {<<"summary">>, <<>>, None}

UserTexts == {<<>>, <<"th-text">>}

(* ------------------------------------------------- parsing and validation *)

\* lines 168-172: strip, then remove the fence markers when the text starts
\* with one
Clean(text) ==
    LET stripped == Strip(text)
    IN  IF StartsWith(stripped, <<Fence>>)
        THEN Remove(Remove(Strip(stripped), <<Fence, "json">>), <<Fence>>)
        ELSE stripped

\* json.loads on a text of the token alphabet: white space between tokens is
\* insignificant; the text decodes when it is "[" records separated by ","
\* and "]", and raises JSONDecodeError otherwise
Decode(s) ==
    LET t     == SelectSeq(s, LAMBDA x : x \notin Whitespace)
        inner == SubSeq(t, 2, Len(t) - 1)
        wellFormed ==
            /\ Len(t) >= 2
            /\ t[1] = "["
            /\ t[Len(t)] = "]"
            /\ \/ inner = <<>>
               \/ /\ Len(inner) % 2 = 1
                  /\ \A i \in 1..Len(inner) :
                        IF i % 2 = 1 THEN inner[i] \in Records ELSE inner[i] = ","
    IN  IF wellFormed
        THEN [ok |-> TRUE, data |-> [i \in 1..((Len(inner) + 1) \div 2) |-> inner[2 * i - 1]]]
        ELSE [ok |-> FALSE, data |-> <<>>]

\* the count taken after the rows with a bad date are gone
NumEventsAfterDrop(d) == Len(SelectSeq(d, LAMBDA r : to_datetime(r) # NaT))

\* line 182
NumEvents(d) == Len(d)

\* lines 185-202: the checks in the order the code makes them
CheckCount(n) ==
    IF n < MIN_EVENTS THEN "insufficient"
    ELSE IF n > MAX_EVENTS THEN "excessive"
    ELSE IF n = 0 THEN "no_data"
    ELSE "accepted"

\* the frame with no row dropped
KeepNa(d) == d

\* lines 207-208: rows whose coerced date is NaT are dropped
DropNa(d) == SelectSeq(d, LAMBDA r : to_datetime(r) # NaT)

Reverse(d) == [i \in 1..Len(d) |-> d[Len(d) + 1 - i]]

Min(S) == CHOOSE x \in S : \A y \in S : x <= y

\* line 209: sort_values(by=...) ascending.  The default sort is not stable:
\* rows of equal date come out in an order the library picks; "kind" is that
\* choice (kept order, or reversed order, within each group of equal dates)
RECURSIVE SortGroups(_, _, _)
SortGroups(d, keys, kind) ==
    IF keys = {} THEN <<>>
    ELSE LET k     == Min(keys)
             group == SelectSeq(d, LAMBDA r : to_datetime(r) = k)
         IN  (IF kind = "kept" THEN group ELSE Reverse(group))
             \o SortGroups(d, keys \ {k}, kind)

\* the frame left in payload order
Unsorted(d, kind) == d

SortValues(d, kind) ==
    SortGroups(d, {to_datetime(d[i]) : i \in 1..Len(d)}, kind)

SortKinds == {"kept", "reversed"}

(* ----------------------------------------------------------------- state *)

VARIABLES
    pc,                 \* the stage the script is about to run
    event_type_th,      \* lines 122, 126: the two text inputs
    location_th,
    event_type_en,      \* lines 136, 137
    location_en,
    raw_text_summary,   \* line 147
    response_extract,   \* line 160: the extraction call's answer
    json_output,        \* lines 168-172
    data,               \* line 180
    num_events,         \* line 182
    df,                 \* lines 204-210
    out,                \* the messages written to the page, in order
    code,               \* the text st.code() showed, None when it showed none
    table,              \* the rows st.dataframe() showed, None when none
    charts,             \* how many charts were drawn
    exc,                \* the last exception a service call raised (e)
    trace               \* the stages started so far, in order

vars ==
    <<pc, event_type_th, location_th, event_type_en, location_en,
      raw_text_summary, response_extract, json_output, data, num_events, df,
      out, code, table, charts, exc, trace>>

NoException == [at |-> "", err |-> ""]

Msg(w, m, e, n) == [w |-> w, m |-> m, e |-> e, n |-> n]

Init ==
    /\ pc = "idle"
    /\ event_type_th = <<>>
    /\ location_th = <<>>
    /\ event_type_en = None
    /\ location_en = None
    /\ raw_text_summary = None
    /\ response_extract = NoReply
    /\ json_output = None
    /\ data = <<>>
    /\ num_events = 0
    /\ df = <<>>
    /\ out = <<>>
    /\ code = None
    /\ table = None
    /\ charts = 0
    /\ exc = NoException
    /\ trace = <<>>

(* --------------------------------------------------------------- actions *)

\* a call raised: either the provider failed, or response.text was None and
\* the attribute access on it raised
Raised(rep) == ~rep.ok \/ rep.text = None

ErrorOf(rep) == IF rep.ok THEN "AttributeError" ELSE rep.err

\* "except Exception as e": the exception a translation call raised, if any
Caught(old, stage, rep) ==
    IF Raised(rep) THEN [at |-> stage, err |-> ErrorOf(rep)] ELSE old

\* lines 30-43: the translation, or the original text when the call raised
translate_to_english(text, rep) ==
    IF Raised(rep) THEN text ELSE Strip(rep.text)

\* lines 33, 42: what translate_to_english writes to the page
TranslateMsgs(rep) ==
    <<Msg("info", "translating", "", 0)>>
    \o (IF Raised(rep)
        THEN <<Msg("error", "translate_failed", ErrorOf(rep), 0)>>
        ELSE <<>>)

\* lines 73-90: the research text, or None when the call raised
get_raw_summary(rep) == IF rep.ok THEN rep.text ELSE None

\* "and" where the code has "or"
BothTranslationsMissing(a, b) == ~Truthy(a) /\ ~Truthy(b)

\* line 139
TranslationsMissing(a, b) == ~Truthy(a) \/ ~Truthy(b)

\* the research call made again when it gave nothing
RetryResearch(raw) == IF ~Truthy(raw) THEN "research" ELSE "extract"

\* the missing stop after the research call
AlwaysExtract(raw) == "extract"

\* lines 149-152
AfterResearch(raw) == IF ~Truthy(raw) THEN "stopped" ELSE "extract"

\* lines 132-133, 283-284: the button is pressed with the two inputs
Click(et, loc) ==
    /\ pc = "idle"
    /\ event_type_th' = et
    /\ location_th' = loc
    /\ IF Truthy(et) /\ Truthy(loc)
       THEN /\ pc' = "translate_event"
            /\ out' = out
       ELSE /\ pc' = "done"
            /\ out' = Append(out, Msg("warning", "need_inputs", "", 0))
    /\ UNCHANGED <<event_type_en, location_en, raw_text_summary,
                   response_extract, json_output, data, num_events, df,
                   code, table, charts, exc, trace>>

\* line 136
TranslateEventType(rep) ==
    /\ pc = "translate_event"
    /\ trace' = Append(trace, "translate_event")
    /\ event_type_en' = translate_to_english(event_type_th, rep)
    /\ out' = out \o TranslateMsgs(rep)
    /\ exc' = Caught(exc, "translate_event", rep)
    /\ pc' = "translate_location"
    /\ UNCHANGED <<event_type_th, location_th, location_en, raw_text_summary,
                   response_extract, json_output, data, num_events, df,
                   code, table, charts>>

\* lines 137-143
TranslateLocation(rep) ==
    /\ pc = "translate_location"
    /\ trace' = Append(trace, "translate_location")
    /\ location_en' = translate_to_english(location_th, rep)
    /\ exc' = Caught(exc, "translate_location", rep)
    /\ IF TranslationsMissing(event_type_en, location_en')
       THEN /\ out' = out \o TranslateMsgs(rep)
                       \o <<Msg("error", "cannot_translate", "", 0)>>
            /\ pc' = "stopped"
       ELSE /\ out' = out \o TranslateMsgs(rep)
                       \o <<Msg("success", "translated", "", 0)>>
            /\ pc' = "research"
    /\ UNCHANGED <<event_type_th, location_th, event_type_en, raw_text_summary,
                   response_extract, json_output, data, num_events, df,
                   code, table, charts>>

\* lines 146-152
Research(rep) ==
    /\ pc = "research"
    /\ trace' = Append(trace, "research")
    /\ raw_text_summary' = get_raw_summary(rep)
    /\ exc' = IF rep.ok THEN exc ELSE [at |-> "research", err |-> rep.err]
    /\ pc' = AfterResearch(raw_text_summary')
    /\ out' = out
              \o (IF rep.ok THEN <<>>
                  ELSE <<Msg("error", "search_failed", rep.err, 0)>>)
              \o (IF pc' = "extract"
                  THEN <<Msg("info", "raw_found", "", 0)>>
                  ELSE <<>>)
    /\ UNCHANGED <<event_type_th, location_th, event_type_en, location_en,
                   response_extract, json_output, data, num_events, df,
                   code, table, charts>>

\* lines 155-177, 281-282, 286-287: the extraction call and the cleaning of
\* its text; an exception of the call reaches the outer handler
Extract(rep) ==
    /\ pc = "extract"
    /\ trace' = Append(trace, "extract")
    /\ response_extract' = rep
    /\ IF ~rep.ok \/ rep.none
       THEN /\ json_output' = json_output
            /\ exc' = [at |-> "extract",
                       err |-> IF rep.ok THEN "AttributeError" ELSE rep.err]
            /\ out' = Append(out, Msg("error", "client_error", exc'.err, 0))
            /\ pc' = "done"
       ELSE /\ json_output' = Clean(ReplyText(rep))
            /\ exc' = exc
            /\ IF json_output' # <<>>
               THEN /\ out' = Append(out, Msg("header", "table", "", 0))
                    /\ pc' = "parse"
               ELSE /\ out' = Append(out, Msg("warning", "no_output", "", 0))
                    /\ pc' = "done"
    /\ UNCHANGED <<event_type_th, location_th, event_type_en, location_en,
                   raw_text_summary, data, num_events, df, code, table, charts>>

\* lines 180-182, 274-278
Parse ==
    /\ pc = "parse"
    /\ trace' = Append(trace, "parse")
    /\ LET r == Decode(json_output)
       IN  IF r.ok
           THEN /\ data' = r.data
                /\ num_events' = NumEvents(r.data)
                /\ pc' = "validate"
                /\ UNCHANGED <<out, code>>
           ELSE /\ out' = out \o <<Msg("error", "json_error", "", 0),
                                   Msg("warning", "json_cause", "", 0),
                                   Msg("subheader", "raw_json", "", 0)>>
                /\ code' = json_output
                /\ pc' = "done"
                /\ UNCHANGED <<data, num_events>>
    /\ UNCHANGED <<event_type_th, location_th, event_type_en, location_en,
                   raw_text_summary, response_extract, json_output, df,
                   table, charts, exc>>

\* lines 185-202
Validate ==
    /\ pc = "validate"
    /\ trace' = Append(trace, "validate")
    /\ LET verdict == CheckCount(num_events)
       IN  IF verdict = "accepted"
           THEN /\ pc' = "render"
                /\ UNCHANGED <<out, code>>
           ELSE /\ out' = out
                     \o <<Msg("error", verdict, "", num_events)>>
                     \o (IF verdict = "no_data"
                         THEN <<Msg("warning", "broaden", "", 0)>>
                         ELSE <<>>)
                     \o <<Msg("subheader", "raw_json", "", 0)>>
                /\ code' = json_output
                /\ pc' = "stopped"
    /\ UNCHANGED <<event_type_th, location_th, event_type_en, location_en,
                   raw_text_summary, response_extract, json_output, data,
                   num_events, df, table, charts, exc>>

\* lines 204-272, 279-280: the frame, the date clean-up and sort, the table
\* and the three charts; a KeyError reaches the inner generic handler
Render(kind) ==
    /\ pc = "render"
    /\ trace' = Append(trace, "render")
    /\ IF KeyErrorOnTime(data)
       THEN /\ out' = Append(out, Msg("error", "processing_failed", "KeyError", 0))
            /\ UNCHANGED <<df, table, charts>>
       ELSE /\ df' = SortValues(DropNa(data), kind)
            /\ out' = out \o <<Msg("success", "extracted", "", Len(df')),
                               Msg("header", "charts", "", 0)>>
            /\ table' = df'
            /\ charts' = 3
    /\ pc' = "done"
    /\ UNCHANGED <<event_type_th, location_th, event_type_en, location_en,
                   raw_text_summary, response_extract, json_output, data,
                   num_events, code, exc>>

Next ==
    \/ \E et \in UserTexts, loc \in UserTexts : Click(et, loc)
    \/ \E rep \in TextReplies(TranslationTexts, TranslationErrors) : TranslateEventType(rep)
    \/ \E rep \in TextReplies(TranslationTexts, TranslationErrors) : TranslateLocation(rep)
    \/ \E rep \in TextReplies(ResearchTexts, ProviderErrors) : Research(rep)
    \/ \E rep \in ExtractReplies : Extract(rep)
    \/ Parse
    \/ Validate
    \/ \E kind \in SortKinds : Render(kind)

Spec == Init /\ [][Next]_vars

(* ---------------------------------------------------------------- claims *)

StageOrder ==
    <<"translate_event", "translate_location", "research", "extract",
      "parse", "validate", "render">>

Started(stage) == \E i \in 1..Len(trace) : trace[i] = stage

Ended == pc \in {"done", "stopped"}

Shown(m) == \E i \in 1..Len(out) : out[i].m = m

Count(d, r) == Cardinality({i \in 1..Len(d) : d[i] = r})

SortedByTime(d) ==
    \A i \in 1..(Len(d) - 1) : to_datetime(d[i]) <= to_datetime(d[i + 1])

NothingRendered == table = None /\ charts = 0

ProcessingErrors ==
    {"json_error", "insufficient", "excessive", "no_data", "processing_failed"}

\* C1: when the cleaned extraction text decodes to an array of N records,
\* 10 <= N <= 100, all with a parseable time, the run ends with no
\* cardinality error and no stop, and the table holds exactly those N
\* records in non-decreasing order of parsed time.
C1_AcceptedSorted ==
    LET r == Decode(json_output)
    IN  ( /\ Ended
          /\ Started("parse")
          /\ r.ok
          /\ Len(r.data) >= MIN_EVENTS
          /\ Len(r.data) <= MAX_EVENTS
          /\ \A i \in 1..Len(r.data) : to_datetime(r.data[i]) # NaT )
        => /\ pc = "done"
           /\ \A m \in ProcessingErrors : ~Shown(m)
           /\ table # None
           /\ Len(table) = Len(r.data)
           /\ \A x \in Records : Count(table, x) = Count(r.data, x)
           /\ SortedByTime(table)

\* a full-size payload whose rows the sort had to reorder
C1_Witness ==
    /\ pc = "done"
    /\ table # None
    /\ Len(table) = MAX_EVENTS
    /\ \A i \in 1..Len(data) : to_datetime(data[i]) # NaT
    /\ data[1] = "2020"
    /\ table[1] = "2019"

\* C2 (as claimed): for N < 10 or N > 100 the run ends in the matching
\* cardinality error, nothing is rendered, and the text shown with the
\* error is the extraction call's text unchanged.
C2_RawTextUnchanged ==
    ( /\ Ended
      /\ Started("validate")
      /\ (num_events < MIN_EVENTS \/ num_events > MAX_EVENTS) )
    => /\ pc = "stopped"
       /\ (num_events < MIN_EVENTS => Shown("insufficient") /\ ~Shown("excessive"))
       /\ (num_events > MAX_EVENTS => Shown("excessive") /\ ~Shown("insufficient"))
       /\ NothingRendered
       /\ code = ReplyText(response_extract)

\* C3 (as claimed): a payload of zero records ends in "no data found".
C3_EmptyIsNoData ==
    (Ended /\ Started("validate") /\ num_events = 0) => Shown("no_data")

\* C4 (as claimed): for a payload wrapped in fence markers, with no tag or
\* with any tag, the cleaned text decodes to what the payload itself
\* decodes to.
C4_FenceTransparent ==
    ( /\ Started("extract")
      /\ response_extract.ok
      /\ ~response_extract.none
      /\ response_extract.wrap \in FencedWraps )
    => Decode(json_output)
         = Decode(Body(response_extract.form, response_extract.recs))

\* C5 (as claimed): whenever a table is rendered it holds at least 10 and
\* at most 100 records, none with an unparseable time.
C5_RenderedWithinBounds ==
    table # None
    => /\ Len(table) >= MIN_EVENTS
       /\ Len(table) <= MAX_EVENTS
       /\ \A i \in 1..Len(table) : to_datetime(table[i]) # NaT

\* C5 (amended): whenever the render stage is reached the decoded record
\* count is between 10 and 100, and whenever a table is rendered it holds at
\* most 100 records (possibly fewer than 10), none with an unparseable time.
C5_RenderedAmended ==
    /\ (pc = "render" \/ Started("render"))
       => (num_events >= MIN_EVENTS /\ num_events <= MAX_EVENTS)
    /\ table # None
       => /\ Len(table) <= MAX_EVENTS
          /\ Len(table) <= num_events
          /\ \A i \in 1..Len(table) : to_datetime(table[i]) # NaT

\* a rendered table that fell below the lower bound
C5_Witness ==
    /\ table # None
    /\ num_events = MIN_EVENTS
    /\ Len(table) > 0
    /\ Len(table) < MIN_EVENTS

\* C6: for a decoded payload of N records, 10 <= N <= 100, each with a time
\* field and k of them unparseable, the run is accepted with no error
\* shown, exactly the k records are dropped, and the table is the other
\* N - k records in ascending time order, also when N - k < 10.
C6_PreDropCount ==
    ( /\ Ended
      /\ Started("validate")
      /\ Len(data) >= MIN_EVENTS
      /\ Len(data) <= MAX_EVENTS
      /\ \A i \in 1..Len(data) : data[i] \in TimeStrings )
    => /\ pc = "done"
       /\ \A m \in ProcessingErrors : ~Shown(m)
       /\ code = None
       /\ table # None
       /\ \A x \in Records :
             Count(table, x) = IF to_datetime(x) = NaT THEN 0 ELSE Count(data, x)
       /\ SortedByTime(table)
       /\ charts = 3

\* twelve records decoded, half of them with a bad date, six rendered
C6_Witness ==
    /\ pc = "done"
    /\ Len(data) = MIN_EVENTS + 2
    /\ Count(data, "not-a-date") = 6
    /\ table # None
    /\ Len(table) = 6

\* the two translations have both returned
Translated == Len(trace) = 2

EventTranslationFailed ==
    Len(trace) >= 1 /\ Len(out) >= 2 /\ out[2].m = "translate_failed"

LocationTranslationFailed ==
    Len(trace) = 2 /\ out[Len(out) - 1].m = "translate_failed"

\* C7 (as claimed): after the two translations the request halts before the
\* research stage only when both translated texts are empty.
C7_HaltsOnlyIfBothEmpty ==
    (Translated /\ pc = "stopped")
    => (event_type_en = <<>> /\ location_en = <<>>)

\* C7 (amended): a failed translation call never aborts the request and its
\* result is the untranslated original text; after the two translations the
\* request halts before the research stage exactly when at least one of the
\* translated texts is empty, and goes on to the research call otherwise.
C7_HaltsIfEitherEmpty ==
    /\ EventTranslationFailed => event_type_en = event_type_th
    /\ (EventTranslationFailed /\ Len(trace) = 1) => pc = "translate_location"
    /\ LocationTranslationFailed => location_en = location_th
    /\ (EventTranslationFailed /\ LocationTranslationFailed) => pc = "research"
    /\ Translated
       => /\ pc \in {"stopped", "research"}
          /\ pc = "stopped" <=> (event_type_en = <<>> \/ location_en = <<>>)

\* the event type failed to translate and the location came back blank
C7_Witness ==
    /\ Translated
    /\ EventTranslationFailed
    /\ event_type_en = event_type_th
    /\ location_en = <<>>
    /\ pc = "stopped"

\* C8 (as claimed): on every path on which the request aborts after the
\* research call was made, the provider's output is shown before the end.
C8_RawShownOnAbort ==
    (Ended /\ Started("research") /\ table = None) => code # None

\* C9: the stages run in the fixed order, each at most once, none again
\* after a failure: the stages started are always a prefix of the order.
C9_StageOrder ==
    /\ Len(trace) <= Len(StageOrder)
    /\ \A i \in 1..Len(trace) : trace[i] = StageOrder[i]
    /\ Ended \/ pc = "idle" \/ pc = StageOrder[Len(trace) + 1]

\* a request that ran all seven stages
C9_Witness == trace = StageOrder /\ pc = "done" /\ charts = 3

\* C10: when the research or the extraction call fails the request ends at
\* once with the provider's message in an error, no later stage runs and
\* nothing is decoded, validated or rendered.
C10_GenerationFailureAborts ==
    /\ exc.at = "research"
       => /\ pc = "stopped"
          /\ trace = SubSeq(StageOrder, 1, 3)
          /\ out[Len(out)] = Msg("error", "search_failed", exc.err, 0)
          /\ NothingRendered /\ code = None /\ data = <<>>
    /\ exc.at = "extract"
       => /\ pc = "done"
          /\ trace = SubSeq(StageOrder, 1, 4)
          /\ out[Len(out)] = Msg("error", "client_error", exc.err, 0)
          /\ NothingRendered /\ code = None /\ data = <<>>

\* the research call failed with a provider error
C10_Witness ==
    /\ exc.at = "research"
    /\ exc.err = "503 unavailable"
    /\ raw_text_summary = None
    /\ pc = "stopped"

====
